---- MODULE Spec2Model ----
(***************************************************************************)
(* Model of the user service of backend/main.go: the "users" table, the    *)
(* in-memory userCache in front of it, the four data-access functions      *)
(* getUserByID, createUser, updateUser and deleteUser, and the HTTP        *)
(* handlers that call them and translate their errors into status codes.   *)
(*                                                                         *)
(* Spec      runs one request at a time: each action is one whole handler. *)
(* SpecConc  runs two requests concurrently: createUser and updateUser are *)
(*           split at their two SQL statements (the duplicate pre-check    *)
(*           and the write), which the code issues without a transaction.  *)
(* SpecCred  is Spec with request bodies that carry a password or none.    *)
(* SpecList  serves GET /users with its page and pageSize query strings    *)
(*           over a table of up to three rows.                             *)
(* SpecValid is Spec with request bodies a validator would reject.         *)
(* SpecFail  adds a store that fails, and the gorm handlers of             *)
(*           handlers/user_handler.go.                                     *)
(*                                                                         *)
(* Time is counted in minutes.  The table has no constraint the source     *)
(* declares: createUser and updateUser rely on their pre-check alone.      *)
(***************************************************************************)
EXTENDS Naturals, Sequences, FiniteSets, TLC

VARIABLES
    users,      \* the rows of table "users", in insertion order; users[i].id = i
    userCache,  \* go-cache: key (user id) -> item {found, Object, Expiration}
    clock,      \* time.Now(), in minutes
    last,       \* the most recently completed request and its response
    inflight    \* SpecConc: per connection, the request between its two statements

vars == <<users, userCache, clock, last, inflight>>

----------------------------------------------------------------------------
(* Bounds *)

MaxRows == 2        \* rows the table may hold
MaxClock == 11      \* the clock stops here
TickMinutes == 5    \* minutes that pass in one Tick
StartTime == 1      \* the clock when the server starts (later than the zero time)
MaxListRows == 3    \* rows the table may hold in SpecList

(* Program constants *)

DefaultExpiration == 5   \* cache.New(5*time.Minute, ...): item time-to-live, minutes
NULL == 0                \* deleted_at IS NULL; also the zero time.Time

DefaultPage == 1         \* GET /users: page when the parameter is unusable
DefaultPageSize == 10    \* GET /users: pageSize when the parameter is unusable

StatusOK == 200
StatusCreated == 201
StatusNoContent == 204
StatusBadRequest == 400
StatusNotFound == 404
StatusInternalServerError == 500

Procs == {"c1", "c2"}
Ids == 1..(MaxRows + 1)            \* ids a request may name; the last one never exists

----------------------------------------------------------------------------
(* The User struct and the request payloads *)

\* `var user User`: the zero value
ZeroUser ==
    [ID |-> 0, Username |-> "", Email |-> "", Password |-> "",
     ProfilePictureURL |-> "", Bio |-> "", CreatedAt |-> NULL, UpdatedAt |-> NULL]

\* the profile picture and the bio a client sends along with each username
Display == [ann |-> <<"pic1", "bio1">>, bob |-> <<"pic2", "bio2">>]

\* c.Bind(&user): the JSON bodies a client sends
Payloads ==
    { [ZeroUser EXCEPT !.Username = n, !.Email = e, !.Password = "pw",
                       !.ProfilePictureURL = Display[n][1],
                       !.Bio = Display[n][2]] :
        n \in {"ann", "bob"}, e \in {"ann@x", "bob@x"} }

\* bcrypt.GenerateFromPassword: one-way, never the plaintext
Hash(pw) == "$2a$" \o pw

----------------------------------------------------------------------------
(* Go's int: 64 bits, two's complement, arithmetic wraps around.  A value   *)
(* is written as IntBytes bytes, least significant first.                   *)

IntBytes == 8
Byte == 256

Word(n) == [i \in 1..IntBytes |-> IF i = 1 THEN n ELSE 0]    \* n < Byte

\* whether the bytes of x, read as uint64, are a number below Byte, and which
IsSmall(x) == \A i \in 2..IntBytes : x[i] = 0

\* the sign bit of an int
IsNegative(x) == x[IntBytes] >= Byte \div 2

RECURSIVE MulAddFrom(_, _, _, _)
\* bytes k.. of x*m + a for m < Byte, a the carry into byte k; the carry out
\* of the last byte is appended as one more element
MulAddFrom(x, m, a, k) ==
    IF k > IntBytes THEN <<a>>
    ELSE LET s == x[k] * m + a
         IN  <<s % Byte>> \o MulAddFrom(x, m, s \div Byte, k + 1)

RECURSIVE Column(_, _, _, _)
\* x[1]*y[k] + x[2]*y[k-1] + ... + x[i]*y[k+1-i]
Column(x, y, k, i) ==
    IF i = 0 THEN 0 ELSE x[i] * y[k + 1 - i] + Column(x, y, k, i - 1)

RECURSIVE MulFrom(_, _, _, _)
MulFrom(x, y, k, carry) ==
    IF k > IntBytes THEN <<>>
    ELSE LET s == Column(x, y, k, k) + carry
         IN  <<s % Byte>> \o MulFrom(x, y, k + 1, s \div Byte)

\* x * y in int: the low 64 bits of the product
Mul(x, y) == MulFrom(x, y, 1, 0)

RECURSIVE DecFrom(_, _)
DecFrom(x, k) ==
    IF k > IntBytes THEN <<>>
    ELSE IF x[k] > 0 THEN <<x[k] - 1>> \o SubSeq(x, k + 1, IntBytes)
    ELSE <<Byte - 1>> \o DecFrom(x, k + 1)

\* x - 1 in int
Dec(x) == DecFrom(x, 1)

\* strconv.Atoi(s) for s a sequence of characters: an optional sign, then one
\* or more decimal digits, and a value that fits an int; anything else is an
\* error.  The result is [err, neg, mag], mag the bytes of the magnitude.
DigitChars == <<"0", "1", "2", "3", "4", "5", "6", "7", "8", "9">>

IsDigit(c) == \E d \in 1..10 : DigitChars[d] = c

DigitVal(c) == (CHOOSE d \in 1..10 : DigitChars[d] = c) - 1

RECURSIVE ParseDigits(_, _, _)
\* the digits s[i..] appended to the magnitude acc = [mag, over]; over is set
\* once the magnitude no longer fits 64 bits, and the rest is not read
ParseDigits(s, i, acc) ==
    IF acc.over \/ i > Len(s) THEN acc
    ELSE LET r == MulAddFrom(acc.mag, 10, DigitVal(s[i]), 1)
         IN  ParseDigits(s, i + 1,
                 [mag |-> SubSeq(r, 1, IntBytes),
                  over |-> acc.over \/ r[IntBytes + 1] # 0])

AtoiError == [err |-> TRUE, neg |-> FALSE, mag |-> Word(0)]

Atoi(s) ==
    LET signed == s # <<>> /\ s[1] \in {"+", "-"}
        digits == IF signed THEN Tail(s) ELSE s
        p      == ParseDigits(digits, 1, [mag |-> Word(0), over |-> FALSE])
        neg    == signed /\ s[1] = "-"
        minInt == [i \in 1..IntBytes |-> IF i = IntBytes THEN Byte \div 2 ELSE 0]
    IN  IF digits = <<>> \/ \E i \in 1..Len(digits) : ~IsDigit(digits[i])
        THEN AtoiError
        ELSE IF p.over \/ (IsNegative(p.mag) /\ ~(neg /\ p.mag = minInt))
        THEN AtoiError
        ELSE [err |-> FALSE, neg |-> neg, mag |-> p.mag]

\* n < 1 for the int a successful Atoi returned
LessThanOne(n) == n.neg \/ n.mag = Word(0)

----------------------------------------------------------------------------
(* The SQL statements, as functions of the table rs *)

\* errors of the data-access functions
ErrNil == "nil"
ErrNoRows == "sql: no rows in result set"
ErrExists == "username_or_email_exists"
ErrUserNotFound == "user not found"
ErrOutOfRange == "pq: bigint out of range"
ErrBadConn == "driver: bad connection"
ErrDuplicateKey == "pq: duplicate key value violates unique constraint"

\* QueryRow(...).Scan(&existingUser.ID): the id of the first row of the result,
\* or the zero value the variable keeps on sql.ErrNoRows
ScanID(S) == IF S = {} THEN 0 ELSE CHOOSE i \in S : \A j \in S : i <= j

\* Where(squirrel.Eq{"id": id, "deleted_at": nil})
SelectActiveByID(rs, id) ==
    {i \in DOMAIN rs : rs[i].id = id /\ rs[i].deleted_at = NULL}

\* getUsers: Where(squirrel.Eq{"deleted_at": nil})
SelectActive(rs) == {i \in DOMAIN rs : rs[i].deleted_at = NULL}

\* The query of getUsers has no ORDER BY: the store returns the selected rows
\* in an order of its choosing, any arrangement of the set S.
Orders(S) ==
    {o \in [1..Cardinality(S) -> S] :
        \A i, j \in 1..Cardinality(S) : i # j => o[i] # o[j]}

\* a LIMIT or OFFSET of the statement as a row count: every table of the
\* model has fewer than Byte rows, so Byte stands for any larger number
RowCount(x) == IF IsSmall(x) THEN x[1] ELSE Byte

\* (mutant) a pre-check over the active rows only
SelectExistingActiveOnly(rs, username, email) ==
    {i \in DOMAIN rs : /\ rs[i].username = username \/ rs[i].email = email
                       /\ rs[i].deleted_at = NULL}

\* SELECT id FROM users WHERE username = $1 OR email = $2
SelectExisting(rs, username, email) ==
    {i \in DOMAIN rs : rs[i].username = username \/ rs[i].email = email}

\* (mutant) the pre-check of createUser, which does not exclude the target
SelectExistingOtherIncludesSelf(rs, username, email, id) ==
    {i \in DOMAIN rs : rs[i].username = username \/ rs[i].email = email}

\* SELECT id FROM users WHERE (username = $1 OR email = $2) AND id != $3
SelectExistingOther(rs, username, email, id) ==
    {i \in DOMAIN rs : (rs[i].username = username \/ rs[i].email = email)
                       /\ rs[i].id # id}

\* INSERT INTO users (username, email, password, profile_picture_url, bio,
\* verification_token) ... : the store assigns id, created_at and updated_at
InsertRow(rs, u, now) ==
    Append(rs, [id |-> Len(rs) + 1, username |-> u.Username, email |-> u.Email,
                password |-> u.Password,
                profile_picture_url |-> u.ProfilePictureURL, bio |-> u.Bio,
                created_at |-> now, updated_at |-> now, deleted_at |-> NULL])

\* UPDATE users SET username, email, profile_picture_url, bio WHERE id = $5
UpdateRows(rs, id, u) ==
    [i \in DOMAIN rs |->
        IF rs[i].id = id
        THEN [rs[i] EXCEPT !.username = u.Username, !.email = u.Email,
                           !.profile_picture_url = u.ProfilePictureURL,
                           !.bio = u.Bio]
        ELSE rs[i]]

\* the rows the WHERE clause of updateUser and of deleteUser matches
MatchByID(rs, id) == {i \in DOMAIN rs : rs[i].id = id}

\* (mutant) a delete that also blanks the email of the row
SoftDeleteRowsBlanksEmail(rs, id, now) ==
    [i \in DOMAIN rs |->
        IF rs[i].id = id THEN [rs[i] EXCEPT !.deleted_at = now, !.email = ""]
        ELSE rs[i]]

\* UPDATE users SET deleted_at = $1 WHERE id = $2
SoftDeleteRows(rs, id, now) ==
    [i \in DOMAIN rs |->
        IF rs[i].id = id THEN [rs[i] EXCEPT !.deleted_at = now] ELSE rs[i]]

\* (mutant) a select list that includes the password column
ScanUserWithPassword(row) ==
    [ZeroUser EXCEPT !.ID = row.id, !.Username = row.username,
                     !.Email = row.email, !.Password = row.password,
                     !.ProfilePictureURL = row.profile_picture_url,
                     !.Bio = row.bio, !.CreatedAt = row.created_at,
                     !.UpdatedAt = row.updated_at]

\* rows.Scan(&user.ID, &user.Username, &user.Email, &user.ProfilePictureURL,
\* &user.Bio, &user.CreatedAt, &user.UpdatedAt): password is not selected
ScanUser(row) ==
    [ZeroUser EXCEPT !.ID = row.id, !.Username = row.username,
                     !.Email = row.email,
                     !.ProfilePictureURL = row.profile_picture_url,
                     !.Bio = row.bio, !.CreatedAt = row.created_at,
                     !.UpdatedAt = row.updated_at]

----------------------------------------------------------------------------
(* userCache (patrickmn/go-cache) *)

NoItem == [found |-> FALSE, Object |-> ZeroUser, Expiration |-> 0]

\* (mutant) a lookup that does not look at the expiration
CacheGetServesExpired(c, k, now) ==
    IF c[k].found THEN c[k] ELSE NoItem

\* userCache.Get(key): an item past its expiration is not found
CacheGet(c, k, now) ==
    IF c[k].found /\ ~(now > c[k].Expiration) THEN c[k] ELSE NoItem

\* userCache.Set(key, user, cache.DefaultExpiration)
CacheSet(c, k, u, now) ==
    [c EXCEPT ![k] = [found |-> TRUE, Object |-> u,
                      Expiration |-> now + DefaultExpiration]]

----------------------------------------------------------------------------
(* The data-access functions.  Each returns what the Go function returns and *)
(* leaves behind: the error, the user value, the table, the cache, and the   *)
(* number of statements it sent to the store.                                *)

\* getUsers(db, page, pageSize): offset and limit are ints converted to
\* uint64 and written into the statement; the store takes them as bigint and
\* fails the query when one is beyond it.  order is the order in which the
\* store returns the active rows.
getUsers(rs, page, pageSize, order) ==
    LET offset == Mul(Dec(page), pageSize)
        first  == RowCount(offset) + 1
        n      == RowCount(pageSize)
        end    == IF first + n - 1 < Len(order) THEN first + n - 1 ELSE Len(order)
        rows   == SubSeq(order, first, end)
    IN  IF IsNegative(offset) \/ IsNegative(pageSize)
        THEN [err |-> ErrOutOfRange, users |-> <<>>, calls |-> 1]
        ELSE [err |-> ErrNil,
              users |-> [i \in DOMAIN rows |-> ScanUser(rs[rows[i]])],
              calls |-> 1]

\* (mutant) a read that stores what it scanned also when the query found no
\* row
getUserByIDCachesFailure(rs, c, now, id) ==
    LET item == CacheGet(c, id, now)
        S    == SelectActiveByID(rs, id)
        u    == IF S = {} THEN ZeroUser ELSE ScanUser(rs[ScanID(S)])
    IN  IF item.found
        THEN [err |-> ErrNil, user |-> item.Object, cache |-> c, calls |-> 0]
        ELSE [err |-> IF S = {} THEN ErrNoRows ELSE ErrNil, user |-> u,
              cache |-> CacheSet(c, id, u, now), calls |-> 1]

getUserByID(rs, c, now, id) ==
    LET item == CacheGet(c, id, now)
        S    == SelectActiveByID(rs, id)
    IN  IF item.found
        THEN [err |-> ErrNil, user |-> item.Object, cache |-> c, calls |-> 0]
        ELSE IF S = {}
        THEN [err |-> ErrNoRows, user |-> ZeroUser, cache |-> c, calls |-> 1]
        ELSE LET u == ScanUser(rs[ScanID(S)])
             IN  [err |-> ErrNil, user |-> u,
                  cache |-> CacheSet(c, id, u, now), calls |-> 1]

\* (mutant) a pre-check that compares the username alone
createUserCheckUsernameOnly(rs, u) ==
    ScanID({i \in DOMAIN rs : rs[i].username = u.Username})

\* createUser, first statement: existingUser.ID after the pre-check
createUserCheck(rs, u) == ScanID(SelectExisting(rs, u.Username, u.Email))

\* createUser, second statement: hash the password, insert, scan RETURNING
createUserInsert(rs, u, now) ==
    LET h   == [u EXCEPT !.Password = Hash(u.Password)]
        rs2 == InsertRow(rs, h, now)
        row == rs2[Len(rs2)]
    IN  [err |-> ErrNil,
         user |-> [h EXCEPT !.ID = row.id, !.CreatedAt = row.created_at,
                            !.UpdatedAt = row.updated_at],
         users |-> rs2, calls |-> 1]

createUser(rs, u, now) ==
    IF createUserCheck(rs, u) # 0
    THEN [err |-> ErrExists, user |-> u, users |-> rs, calls |-> 1]
    ELSE LET w == createUserInsert(rs, u, now)
         IN  [w EXCEPT !.calls = w.calls + 1]

\* (mutant) a pre-check that compares the username alone
updateUserCheckUsernameOnly(rs, id, u) ==
    ScanID({i \in DOMAIN rs : rs[i].username = u.Username /\ rs[i].id # id})

\* updateUser, first statement: existingUser.ID after the pre-check
updateUserCheck(rs, id, u) ==
    ScanID(SelectExistingOther(rs, u.Username, u.Email, id))

\* (mutant) an update that reports no matching row the way deleteUser does
updateUserWriteNotFoundString(rs, id, u) ==
    LET rs2 == UpdateRows(rs, id, u)
        S   == MatchByID(rs, id)
    IN  IF S = {}
        THEN [err |-> ErrUserNotFound, user |-> u, users |-> rs2, calls |-> 1]
        ELSE [err |-> ErrNil,
              user |-> [u EXCEPT !.UpdatedAt = rs2[ScanID(S)].updated_at],
              users |-> rs2, calls |-> 1]

\* updateUser, second statement: UPDATE ... RETURNING updated_at; Scan gives
\* sql.ErrNoRows when the statement returns no row
updateUserWrite(rs, id, u) ==
    LET rs2 == UpdateRows(rs, id, u)
        S   == MatchByID(rs, id)
    IN  IF S = {}
        THEN [err |-> ErrNoRows, user |-> u, users |-> rs2, calls |-> 1]
        ELSE [err |-> ErrNil,
              user |-> [u EXCEPT !.UpdatedAt = rs2[ScanID(S)].updated_at],
              users |-> rs2, calls |-> 1]

\* (mutant) an update that runs the UPDATE first and reports a missing row
\* before it looks for duplicates
updateUserExistenceFirst(rs, id, u) ==
    IF MatchByID(rs, id) = {}
    THEN [err |-> ErrNoRows, user |-> u, users |-> rs, calls |-> 1]
    ELSE IF updateUserCheck(rs, id, u) # 0
    THEN [err |-> ErrExists, user |-> u, users |-> rs, calls |-> 1]
    ELSE LET w == updateUserWrite(rs, id, u)
         IN  [w EXCEPT !.calls = w.calls + 1]

updateUser(rs, id, u) ==
    IF updateUserCheck(rs, id, u) # 0
    THEN [err |-> ErrExists, user |-> u, users |-> rs, calls |-> 1]
    ELSE LET w == updateUserWrite(rs, id, u)
         IN  [w EXCEPT !.calls = w.calls + 1]

\* deleteUser: one UPDATE; rowsAffected == 0 is "user not found"
deleteUser(rs, id, now) ==
    LET rowsAffected == Cardinality(MatchByID(rs, id))
    IN  [err |-> IF rowsAffected = 0 THEN ErrUserNotFound ELSE ErrNil,
         user |-> ZeroUser, users |-> SoftDeleteRows(rs, id, now), calls |-> 1]

----------------------------------------------------------------------------
(* The same functions when the store fails: the connection is lost, or the  *)
(* call times out, at the statement numbered `at` of the function.  fault   *)
(* is that number when the function got as far as that statement.          *)

\* getUserByID: a cache hit sends no statement; otherwise Scan returns the
\* driver's error and the function returns before userCache.Set
getUserByIDStoreDown(rs, c, now, id) ==
    LET item == CacheGet(c, id, now)
    IN  IF item.found
        THEN [err |-> ErrNil, user |-> item.Object, cache |-> c, calls |-> 0,
              fault |-> 0]
        ELSE [err |-> ErrBadConn, user |-> ZeroUser, cache |-> c, calls |-> 1,
              fault |-> 1]

\* updateUser: an error of the pre-check other than sql.ErrNoRows is returned
\* at once; an error of the UPDATE is returned after a pre-check that found
\* nothing
updateUserStoreDown(rs, id, u, at) ==
    IF at = 1
    THEN [err |-> ErrBadConn, user |-> u, users |-> rs, calls |-> 1, fault |-> 1]
    ELSE IF updateUserCheck(rs, id, u) # 0
    THEN [err |-> ErrExists, user |-> u, users |-> rs, calls |-> 1, fault |-> 0]
    ELSE [err |-> ErrBadConn, user |-> u, users |-> rs, calls |-> 2, fault |-> 2]

\* deleteUser: db.Exec returns the driver's error
deleteUserStoreDown(rs, id, now) ==
    [err |-> ErrBadConn, user |-> ZeroUser, users |-> rs, calls |-> 1,
     fault |-> 1]

----------------------------------------------------------------------------
(* handlers/user_handler.go, the gorm handlers: UpdateUser and DeleteUser    *)
(* look at result.RowsAffected before result.Error.                          *)

\* h.DB.Model(&User{}).Where("id = ?", id).Updates(user): gorm.Model gives
\* User a DeletedAt, so the statement matches active rows only; it sets the
\* non-zero fields of user, username and email, and updated_at.  username
\* and email are declared unique.  A failed statement leaves RowsAffected 0.
gormUpdates(rs, id, u, now, ok) ==
    LET S == SelectActiveByID(rs, id)
    IN  IF ~ok
        THEN [Error |-> ErrBadConn, RowsAffected |-> 0, users |-> rs, fault |-> 1]
        ELSE IF S # {} /\ SelectExistingOther(rs, u.Username, u.Email, id) # {}
        THEN [Error |-> ErrDuplicateKey, RowsAffected |-> 0, users |-> rs,
              fault |-> 0]
        ELSE [Error |-> ErrNil, RowsAffected |-> Cardinality(S),
              users |-> [i \in DOMAIN rs |->
                           IF i \in S
                           THEN [rs[i] EXCEPT !.username = u.Username,
                                              !.email = u.Email,
                                              !.updated_at = now]
                           ELSE rs[i]],
              fault |-> 0]

\* h.DB.Delete(&User{}, id): with a DeletedAt field, UPDATE users SET
\* deleted_at = now WHERE id = ? AND deleted_at IS NULL
gormDelete(rs, id, now, ok) ==
    LET S == SelectActiveByID(rs, id)
    IN  IF ~ok
        THEN [Error |-> ErrBadConn, RowsAffected |-> 0, users |-> rs, fault |-> 1]
        ELSE [Error |-> ErrNil, RowsAffected |-> Cardinality(S),
              users |-> [i \in DOMAIN rs |->
                           IF i \in S THEN [rs[i] EXCEPT !.deleted_at = now]
                           ELSE rs[i]],
              fault |-> 0]

----------------------------------------------------------------------------
(* The HTTP handlers: the response for the result r of the function called  *)

\* c.Validate(user): the User struct of main.go carries no validate tags
Validate(u) == TRUE

Response(code, msg, u) == [status |-> code, error |-> msg, body |-> u]

\* e.GET("/users", ...): page and pageSize from the query parameters
PageOf(q) ==
    LET n == Atoi(q)
    IN  IF n.err \/ LessThanOne(n) THEN Word(DefaultPage) ELSE n.mag

\* (mutant) a check that lets pageSize = 0 through
PageSizeOfAllowsZero(q) ==
    LET n == Atoi(q)
    IN  IF n.err \/ n.neg THEN Word(DefaultPageSize) ELSE n.mag

PageSizeOf(q) ==
    LET n == Atoi(q)
    IN  IF n.err \/ LessThanOne(n) THEN Word(DefaultPageSize) ELSE n.mag

\* e.GET("/users", ...): the response
ListUsersHandler(r) ==
    IF r.err = ErrNil THEN Response(StatusOK, "", ZeroUser)
    ELSE Response(StatusInternalServerError, "Failed to retrieve users", ZeroUser)

\* (mutant) a handler that does not tell sql.ErrNoRows from other errors
GetUserHandlerNoRowsInternal(r) ==
    IF r.err = ErrNil THEN Response(StatusOK, "", r.user)
    ELSE Response(StatusInternalServerError, "Failed to retrieve user", ZeroUser)

\* e.GET("/users/:id", ...)
GetUserHandler(r) ==
    IF r.err = ErrNil THEN Response(StatusOK, "", r.user)
    ELSE IF r.err = ErrNoRows
    THEN Response(StatusNotFound, "User not found", ZeroUser)
    ELSE Response(StatusInternalServerError, "Failed to retrieve user", ZeroUser)

\* e.POST("/users", ...)
CreateUserHandler(r) ==
    IF r.err = ErrNil THEN Response(StatusCreated, "", r.user)
    ELSE IF r.err = ErrExists
    THEN Response(StatusBadRequest, "username_or_email_exists", ZeroUser)
    ELSE Response(StatusInternalServerError, "failed_to_create_user", ZeroUser)

\* e.PUT("/users/:id", ...)
UpdateUserHandler(r) ==
    IF r.err = ErrNil THEN Response(StatusOK, "", r.user)
    ELSE IF r.err = ErrNoRows
    THEN Response(StatusNotFound, "user_not_found", ZeroUser)
    ELSE IF r.err = ErrExists
    THEN Response(StatusBadRequest, "username_or_email_exists", ZeroUser)
    ELSE Response(StatusInternalServerError, "failed_to_update_user", ZeroUser)

\* e.DELETE("/users/:id", ...)
DeleteUserHandler(r) ==
    IF r.err = ErrNil THEN Response(StatusNoContent, "", ZeroUser)
    ELSE IF r.err = ErrNoRows
    THEN Response(StatusNotFound, "User not found", ZeroUser)
    ELSE Response(StatusInternalServerError, "Failed to delete user", ZeroUser)

(* handlers/user_handler.go, the gorm handlers *)

\* UserHandler.UpdateUser: the response; user is the bound request body
UserHandlerUpdateUserResponse(result, u) ==
    IF result.RowsAffected = 0
    THEN Response(StatusNotFound, "User not found", ZeroUser)
    ELSE IF result.Error # ErrNil
    THEN Response(StatusInternalServerError,
                  "Failed to update user in the database", ZeroUser)
    ELSE Response(StatusOK, "",
                  [ZeroUser EXCEPT !.Username = u.Username, !.Email = u.Email])

\* UserHandler.DeleteUser: the response
UserHandlerDeleteUserResponse(result) ==
    IF result.RowsAffected = 0
    THEN Response(StatusNotFound, "User not found", ZeroUser)
    ELSE IF result.Error # ErrNil
    THEN Response(StatusInternalServerError,
                  "Failed to delete user from the database", ZeroUser)
    ELSE Response(StatusNoContent, "", ZeroUser)

----------------------------------------------------------------------------
(* State *)

\* of a list request: the query parameters, the page and pageSize passed to
\* getUsers, the order in which the store returned the active rows, and the
\* entities of the response
NoList ==
    [query |-> <<<<>>, <<>>>>, page |-> Word(0), pageSize |-> Word(0),
     order |-> <<>>, users |-> <<>>]

NoRequest ==
    [seq |-> 0, op |-> "none", id |-> 0, in |-> ZeroUser, target |-> "none",
     status |-> 0, error |-> "", body |-> ZeroUser, calls |-> 0,
     list |-> NoList, fault |-> 0]

\* what the table holds under identifier id
RowState(rs, id) ==
    IF id \notin DOMAIN rs THEN "none"
    ELSE IF rs[id].deleted_at = NULL THEN "active" ELSE "deleted"

Idle == [pc |-> "idle", id |-> 0, in |-> ZeroUser]

\* the request op on path id with payload u completed with response resp
\* after `calls` statements; seq alternates, so that two equal requests in a
\* row are two steps; target is what the table held under id before the
\* step that completes the request; fault is the number of the statement at
\* which the store failed, 0 when none did
Completed(op, id, u, resp, calls) ==
    [seq |-> 1 - last.seq, op |-> op, id |-> id, in |-> u,
     target |-> RowState(users, id), status |-> resp.status, error |-> resp.error, body |-> resp.body,
     calls |-> calls, list |-> NoList, fault |-> 0]

Init ==
    /\ users = <<>>
    /\ userCache = [k \in Ids |-> NoItem]
    /\ clock = StartTime
    /\ last = NoRequest
    /\ inflight = [p \in Procs |-> Idle]

----------------------------------------------------------------------------
(* Spec: one request at a time, each action a whole handler *)

\* GET /users/:id
GetUserRequest(id) ==
    LET r == getUserByID(users, userCache, clock, id)
    IN  /\ userCache' = r.cache
        /\ last' = Completed("get", id, ZeroUser, GetUserHandler(r), r.calls)
        /\ UNCHANGED <<users, clock, inflight>>

\* (mutant) a list that serves an entity from the cache when the cache has it
ListUsersRequestThroughCache(pageQuery, pageSizeQuery) ==
    \E page \in {PageOf(pageQuery)}, pageSize \in {PageSizeOf(pageSizeQuery)},
       order \in Orders(SelectActive(users)) :
        \E r \in {getUsers(users, page, pageSize, order)} :
            /\ last' = [Completed("list", 0, ZeroUser, ListUsersHandler(r), r.calls)
                          EXCEPT !.list =
                            [query |-> <<pageQuery, pageSizeQuery>>,
                             page |-> page, pageSize |-> pageSize,
                             order |-> order,
                             users |-> [i \in DOMAIN r.users |->
                                 IF CacheGet(userCache, r.users[i].ID, clock).found
                                 THEN userCache[r.users[i].ID].Object
                                 ELSE r.users[i]]]]
            /\ UNCHANGED <<users, userCache, clock, inflight>>

\* GET /users?page=..&pageSize=..
ListUsersRequest(pageQuery, pageSizeQuery) ==
    \E page \in {PageOf(pageQuery)}, pageSize \in {PageSizeOf(pageSizeQuery)},
       order \in Orders(SelectActive(users)) :
        \E r \in {getUsers(users, page, pageSize, order)} :
            /\ last' = [Completed("list", 0, ZeroUser, ListUsersHandler(r), r.calls)
                          EXCEPT !.list = [query |-> <<pageQuery, pageSizeQuery>>,
                                           page |-> page, pageSize |-> pageSize,
                                           order |-> order, users |-> r.users]]
            /\ UNCHANGED <<users, userCache, clock, inflight>>

\* POST /users, in a table that holds at most max rows
CreateUserBounded(u, max) ==
    /\ Validate(u)
    /\ LET r == createUser(users, u, clock)
       IN  /\ Len(r.users) <= max
           /\ users' = r.users
           /\ last' = Completed("create", 0, u, CreateUserHandler(r), r.calls)
       /\ UNCHANGED <<userCache, clock, inflight>>

\* POST /users
CreateUserRequest(u) == CreateUserBounded(u, MaxRows)

\* PUT /users/:id
UpdateUserRequest(id, u) ==
    /\ Validate(u)
    /\ LET r == updateUser(users, id, u)
       IN  /\ users' = r.users
           /\ last' = Completed("update", id, u, UpdateUserHandler(r), r.calls)
       /\ UNCHANGED <<userCache, clock, inflight>>

\* DELETE /users/:id
DeleteUserRequest(id) ==
    LET r == deleteUser(users, id, clock)
    IN  /\ users' = r.users
        /\ last' = Completed("delete", id, ZeroUser, DeleteUserHandler(r), r.calls)
        /\ UNCHANGED <<userCache, clock, inflight>>

\* time passes
Tick ==
    /\ clock + TickMinutes <= MaxClock
    /\ clock' = clock + TickMinutes
    /\ UNCHANGED <<users, userCache, last, inflight>>

Next ==
    \/ \E id \in Ids : GetUserRequest(id)
    \/ \E u \in Payloads : CreateUserRequest(u)
    \/ \E id \in Ids, u \in Payloads : UpdateUserRequest(id, u)
    \/ \E id \in Ids : DeleteUserRequest(id)
    \/ ListUsersRequest(<<>>, <<>>)
    \/ Tick

Spec == Init /\ [][Next]_vars

----------------------------------------------------------------------------
(* SpecCred: creates, gets and deletes, with payloads that carry a password *)
(* and payloads that carry none.                                            *)

CredPayloads ==
    { [u EXCEPT !.Password = pw] : u \in Payloads, pw \in {"pw", ""} }

NextCred ==
    \/ \E u \in CredPayloads : CreateUserRequest(u)
    \/ \E id \in Ids : GetUserRequest(id)
    \/ \E id \in Ids : DeleteUserRequest(id)

SpecCred == Init /\ [][NextCred]_vars

----------------------------------------------------------------------------
(* SpecList: creates, deletes and lists over three identities, with the     *)
(* query parameters a client may send.                                      *)

ListPayloads ==
    { [ZeroUser EXCEPT !.Username = n, !.Email = n \o "@x", !.Password = "pw"] :
        n \in {"ann", "bob", "cat"} }

\* decimal numerals next to 2^32 and the numeral of 2^63
TwoTo32 == <<"4", "2", "9", "4", "9", "6", "7", "2", "9", "6">>
TwoTo32Plus1 == <<"4", "2", "9", "4", "9", "6", "7", "2", "9", "7">>
TwoTo63 ==
    <<"9", "2", "2", "3", "3", "7", "2", "0", "3", "6", "8", "5", "4", "7", "7",
      "5", "8", "0", "8">>

\* c.QueryParam("page") and c.QueryParam("pageSize"): each absent, not a
\* number, below 1, too large for an int, or a number from 1
ListQueries ==
    { <<<<>>, <<>>>>,
      <<<<"x">>, <<"2">>>>,
      <<<<"2">>, <<"x">>>>,
      <<<<"0">>, <<"1">>>>,
      <<<<"-", "1">>, <<"0">>>>,
      <<TwoTo63, <<>>>>,
      <<<<"1">>, <<"2">>>>,
      <<<<"2">>, <<"1">>>>,
      <<<<"3">>, <<"1">>>>,
      <<TwoTo32Plus1, <<"1">>>>,
      <<TwoTo32Plus1, TwoTo32>> }

NextList ==
    \/ \E u \in ListPayloads : CreateUserBounded(u, MaxListRows)
    \/ \E id \in Ids : DeleteUserRequest(id)
    \/ \E q \in ListQueries : ListUsersRequest(q[1], q[2])

SpecList == Init /\ [][NextList]_vars

----------------------------------------------------------------------------
(* SpecValid: creates, updates and deletes with request bodies whose        *)
(* username is empty or whose email has no "@".                             *)

ValidationPayloads ==
    { [ZeroUser EXCEPT !.Username = n, !.Email = e, !.Password = "pw"] :
        n \in {"ann", ""}, e \in {"ann@x", "invalid_email"} }

NextValid ==
    \/ \E u \in ValidationPayloads : CreateUserRequest(u)
    \/ \E id \in Ids, u \in ValidationPayloads : UpdateUserRequest(id, u)
    \/ \E id \in Ids : DeleteUserRequest(id)

SpecValid == Init /\ [][NextValid]_vars

----------------------------------------------------------------------------
(* SpecFail: the requests of Spec, the same requests with a store that      *)
(* fails at one of their statements, and the gorm handlers UpdateUser and   *)
(* DeleteUser over the same table, with a store that answers or fails.      *)

\* GET /users/:id with a store that fails
GetUserFails(id) ==
    LET r == getUserByIDStoreDown(users, userCache, clock, id)
    IN  /\ userCache' = r.cache
        /\ last' = [Completed("get", id, ZeroUser, GetUserHandler(r), r.calls)
                      EXCEPT !.fault = r.fault]
        /\ UNCHANGED <<users, clock, inflight>>

\* PUT /users/:id with a store that fails at statement `at`
UpdateUserFails(id, u, at) ==
    /\ Validate(u)
    /\ LET r == updateUserStoreDown(users, id, u, at)
       IN  /\ users' = r.users
           /\ last' = [Completed("update", id, u, UpdateUserHandler(r), r.calls)
                         EXCEPT !.fault = r.fault]
    /\ UNCHANGED <<userCache, clock, inflight>>

\* DELETE /users/:id with a store that fails
DeleteUserFails(id) ==
    LET r == deleteUserStoreDown(users, id, clock)
    IN  /\ users' = r.users
        /\ last' = [Completed("delete", id, ZeroUser, DeleteUserHandler(r), r.calls)
                      EXCEPT !.fault = r.fault]
        /\ UNCHANGED <<userCache, clock, inflight>>

\* UserHandler.UpdateUser (gorm), the store answering (ok) or failing
UserHandlerUpdateUser(id, u, ok) ==
    LET result == gormUpdates(users, id, u, clock, ok)
    IN  /\ users' = result.users
        /\ last' = [Completed("update", id, u,
                               UserHandlerUpdateUserResponse(result, u), 1)
                      EXCEPT !.fault = result.fault]
        /\ UNCHANGED <<userCache, clock, inflight>>

\* UserHandler.DeleteUser (gorm), the store answering (ok) or failing
UserHandlerDeleteUser(id, ok) ==
    LET result == gormDelete(users, id, clock, ok)
    IN  /\ users' = result.users
        /\ last' = [Completed("delete", id, ZeroUser,
                               UserHandlerDeleteUserResponse(result), 1)
                      EXCEPT !.fault = result.fault]
        /\ UNCHANGED <<userCache, clock, inflight>>

NextFail ==
    \/ \E id \in Ids : GetUserRequest(id)
    \/ \E u \in Payloads : CreateUserRequest(u)
    \/ \E id \in Ids, u \in Payloads : UpdateUserRequest(id, u)
    \/ \E id \in Ids : DeleteUserRequest(id)
    \/ \E id \in Ids : GetUserFails(id)
    \/ \E id \in Ids, u \in Payloads, at \in {1, 2} : UpdateUserFails(id, u, at)
    \/ \E id \in Ids : DeleteUserFails(id)
    \/ \E id \in Ids, u \in Payloads, ok \in BOOLEAN : UserHandlerUpdateUser(id, u, ok)
    \/ \E id \in Ids, ok \in BOOLEAN : UserHandlerDeleteUser(id, ok)

SpecFail == Init /\ [][NextFail]_vars

----------------------------------------------------------------------------
(* SpecConc: two connections; createUser and updateUser take two steps, one *)
(* per SQL statement, and any statement of the other connection may run in  *)
(* between.  deleteUser is a single statement.                              *)

PendingInserts == Cardinality({q \in Procs : inflight[q].pc = "insert"})

\* POST /users up to and including the pre-check of createUser
CreateCheck(p, u) ==
    /\ inflight[p].pc = "idle"
    /\ Validate(u)
    /\ IF createUserCheck(users, u) # 0
       THEN /\ last' = Completed("create", 0, u,
                          CreateUserHandler(createUser(users, u, clock)), 1)
            /\ UNCHANGED inflight
       ELSE /\ Len(users) + PendingInserts < MaxRows
            /\ inflight' = [inflight EXCEPT ![p] = [pc |-> "insert", id |-> 0, in |-> u]]
            /\ UNCHANGED last
    /\ UNCHANGED <<users, userCache, clock>>

\* the rest of createUser and of its handler
CreateInsert(p) ==
    /\ inflight[p].pc = "insert"
    /\ LET w == createUserInsert(users, inflight[p].in, clock)
       IN  /\ users' = w.users
           /\ last' = Completed("create", 0, inflight[p].in, CreateUserHandler(w),
                                w.calls + 1)
    /\ inflight' = [inflight EXCEPT ![p] = Idle]
    /\ UNCHANGED <<userCache, clock>>

\* PUT /users/:id up to and including the pre-check of updateUser
UpdateCheck(p, id, u) ==
    /\ inflight[p].pc = "idle"
    /\ Validate(u)
    /\ IF updateUserCheck(users, id, u) # 0
       THEN /\ last' = Completed("update", id, u,
                          UpdateUserHandler(updateUser(users, id, u)), 1)
            /\ UNCHANGED inflight
       ELSE /\ inflight' = [inflight EXCEPT ![p] = [pc |-> "update", id |-> id, in |-> u]]
            /\ UNCHANGED last
    /\ UNCHANGED <<users, userCache, clock>>

\* the rest of updateUser and of its handler
UpdateWrite(p) ==
    /\ inflight[p].pc = "update"
    /\ LET w == updateUserWrite(users, inflight[p].id, inflight[p].in)
       IN  /\ users' = w.users
           /\ last' = Completed("update", inflight[p].id, inflight[p].in,
                                UpdateUserHandler(w), w.calls + 1)
    /\ inflight' = [inflight EXCEPT ![p] = Idle]
    /\ UNCHANGED <<userCache, clock>>

NextConc ==
    \/ \E p \in Procs, u \in Payloads : CreateCheck(p, u)
    \/ \E p \in Procs : CreateInsert(p)
    \/ \E p \in Procs, id \in Ids, u \in Payloads : UpdateCheck(p, id, u)
    \/ \E p \in Procs : UpdateWrite(p)
    \/ \E id \in Ids : DeleteUserRequest(id)

SpecConc == Init /\ [][NextConc]_vars


----------------------------------------------------------------------------
(* Properties *)

\* the active (not soft-deleted) rows of a table
ActiveRows(rs) == {i \in DOMAIN rs : rs[i].deleted_at = NULL}

\* whether an active row of rs other than row `except` carries u's username
\* or u's email
CollidesWithActive(rs, u, except) ==
    \E i \in ActiveRows(rs) :
        /\ rs[i].id # except
        /\ (rs[i].username = u.Username \/ rs[i].email = u.Email)

\* C1: in every reachable state, under every interleaving of the pre-check and
\* the write of concurrent creates and updates, no two active rows share a
\* username and no two active rows share an email.
C1_ActiveIdentityUnique ==
    \A i, j \in ActiveRows(users) :
        i # j => /\ users[i].username # users[j].username
                 /\ users[i].email # users[j].email

\* the step completes a request of kind op: `last` is replaced by its record
Served(op) == last'.seq # last.seq /\ last'.op = op

\* C2: a create whose username or email equals that of an active row is
\* answered 400 "username_or_email_exists" and leaves the table unchanged:
\* no row is inserted and no row is modified.
C2_CreateDuplicateRejected ==
    [][(Served("create") /\ CollidesWithActive(users, last'.in, 0))
       => /\ last'.status = StatusBadRequest
          /\ last'.error = "username_or_email_exists"
          /\ users' = users]_vars

\* a create was rejected whose email, and not its username, is that of an
\* active row
C2_Witness ==
    /\ last.op = "create"
    /\ last.status = StatusBadRequest
    /\ \E i \in ActiveRows(users) :
          /\ users[i].email = last.in.Email
          /\ users[i].username # last.in.Username

\* C3: an update whose username or email equals that of an active row other
\* than the target is answered 400 "username_or_email_exists" before any
\* mutation: the target row and every other row are unchanged.
C3_UpdateDuplicateRejected ==
    [][(Served("update") /\ CollidesWithActive(users, last'.in, last'.id))
       => /\ last'.status = StatusBadRequest
          /\ last'.error = "username_or_email_exists"
          /\ users' = users]_vars

\* an update of an existing row was rejected whose email, and not its
\* username, is that of another active row
C3_Witness ==
    /\ last.op = "update"
    /\ last.status = StatusBadRequest
    /\ last.id \in DOMAIN users
    /\ \E i \in ActiveRows(users) :
          /\ i # last.id
          /\ users[i].email = last.in.Email
          /\ users[i].username # last.in.Username

\* whether the entity e shows row rs[id] as it is stored
ShowsRow(e, rs, id) ==
    /\ e.ID = rs[id].id
    /\ e.Username = rs[id].username
    /\ e.Email = rs[id].email
    /\ e.ProfilePictureURL = rs[id].profile_picture_url
    /\ e.Bio = rs[id].bio

\* whether the cache, read at time now, serves an entry for key k
Cached(c, k, now) == c[k].found /\ now <= c[k].Expiration

\* C4: after a successful update of id the cache holds no stale entry for id,
\* and a get of id issued right after it returns the updated username, email
\* and display fields.
C4_GetAfterUpdateIsFresh ==
    [][/\ (Served("update") /\ last'.status = StatusOK
             /\ Cached(userCache', last'.id, clock'))
          => ShowsRow(userCache'[last'.id].Object, users', last'.id)
       /\ (last.op = "update" /\ last.status = StatusOK
             /\ Served("get") /\ last'.id = last.id)
          => /\ last'.body.Username = last.in.Username
             /\ last'.body.Email = last.in.Email
             /\ last'.body.ProfilePictureURL = last.in.ProfilePictureURL
             /\ last'.body.Bio = last.in.Bio]_vars

\* C5: after a successful delete of id the cache holds no entry for id, and a
\* get of a soft-deleted record is answered not-found, from the store and from
\* the cache alike.
C5_DeletedNeverReturned ==
    [][/\ (Served("delete") /\ last'.status = StatusNoContent)
          => ~userCache'[last'.id].found
       /\ (Served("get") /\ last'.target = "deleted")
          => last'.status = StatusNotFound]_vars

\* C6: delete of an active record succeeds, and a second delete of the same
\* identifier right after it is answered not-found and does not change the row.
C6_SecondDeleteNotFound ==
    [][/\ (Served("delete") /\ last'.target = "active")
          => last'.status = StatusNoContent
       /\ (last.op = "delete" /\ last.target = "active"
             /\ last.status = StatusNoContent
             /\ Served("delete") /\ last'.id = last.id)
          => /\ last'.status = StatusNotFound
             /\ users' = users]_vars

\* C7: an update of a soft-deleted record is answered not-found and leaves the
\* row's username, email and display fields unchanged.
C7_UpdateDeletedNotFound ==
    [][(Served("update") /\ last'.target = "deleted")
       => /\ last'.status = StatusNotFound
          /\ ShowsRow(ScanUser(users[last'.id]), users', last'.id)]_vars

\* whether a soft-deleted row of rs carries u's username or u's email
CollidesWithDeleted(rs, u) ==
    \E i \in DOMAIN rs \ ActiveRows(rs) :
        rs[i].username = u.Username \/ rs[i].email = u.Email

\* C8: uniqueness is checked against active records only: a create with the
\* username or email of a soft-deleted record, colliding with no active one,
\* succeeds, and so does an update of another, active record to them.
C8_DeletedIdentityReusable ==
    [][/\ (Served("create") /\ CollidesWithDeleted(users, last'.in)
             /\ ~CollidesWithActive(users, last'.in, 0))
          => last'.status = StatusCreated
       /\ (Served("update") /\ last'.target = "active"
             /\ CollidesWithDeleted(users, last'.in)
             /\ ~CollidesWithActive(users, last'.in, last'.id))
          => last'.status = StatusOK]_vars

\* C9: a get of the identifier a create has just returned is answered with the
\* created entity and sends no statement to the store.
C9_GetAfterCreateFromCache ==
    [][(last.op = "create" /\ last.status = StatusCreated
          /\ Served("get") /\ last'.id = last.body.ID)
       => /\ last'.status = StatusOK
          /\ last'.body.Username = last.in.Username
          /\ last'.body.Email = last.in.Email
          /\ last'.calls = 0]_vars

\* C10: a get consults the cache first.  When the cache serves an entry for id,
\* the response is that entry, no statement is sent and the cache is left as it
\* is.  Otherwise one statement reads the active row id: when there is one it
\* is returned and stored in the cache under key id, and when there is none the
\* answer is not-found and the cache is left as it is.
C10_GetCacheAside ==
    [][Served("get") =>
         LET id == last'.id IN
         /\ users' = users
         /\ IF Cached(userCache, id, clock)
            THEN /\ last'.status = StatusOK
                 /\ last'.body = userCache[id].Object
                 /\ last'.calls = 0
                 /\ userCache' = userCache
            ELSE /\ last'.calls = 1
                 /\ IF id \in ActiveRows(users)
                    THEN /\ last'.status = StatusOK
                         /\ ShowsRow(last'.body, users, id)
                         /\ userCache'[id].found
                         /\ userCache'[id].Object = last'.body
                         /\ \A k \in Ids \ {id} : userCache'[k] = userCache[k]
                    ELSE /\ last'.status = StatusNotFound
                         /\ userCache' = userCache]_vars

\* a get was answered from the cache, with no statement sent, although the row
\* in the table has a different username by now
C10_Witness ==
    /\ last.op = "get"
    /\ last.status = StatusOK
    /\ last.calls = 0
    /\ last.body = userCache[last.id].Object
    /\ last.body.Username # users[last.id].username

\* C11: a get of the identifier a create has just returned yields
\* an entity with the username, email and display fields of the create's
\* input, with the identifier and both timestamps the store assigned, and
\* with a credential that differs from the input credential.
C11_RoundTripCredentialDiffers ==
    [][(last.op = "create" /\ last.status = StatusCreated
          /\ Served("get") /\ last'.id = last.body.ID)
       => /\ last'.status = StatusOK
          /\ last'.body.Username = last.in.Username
          /\ last'.body.Email = last.in.Email
          /\ last'.body.ProfilePictureURL = last.in.ProfilePictureURL
          /\ last'.body.Bio = last.in.Bio
          /\ last'.body.ID = users[last'.id].id
          /\ last'.body.CreatedAt = users[last'.id].created_at
          /\ last'.body.UpdatedAt = users[last'.id].updated_at
          /\ last'.body.ID # 0
          /\ last'.body.CreatedAt # NULL
          /\ last'.body.UpdatedAt # NULL
          /\ last'.body.Password # last.in.Password]_vars

\* C12: no read response carries a credential: the entity a get returns, from
\* the cache or from the store, and every entity a list returns has an empty
\* password, and so has every entity held in the cache.
C12_NoCredentialInReads ==
    /\ \A k \in Ids : userCache[k].found => userCache[k].Object.Password = ""
    /\ last.op = "get" => last.body.Password = ""
    /\ last.op = "list" =>
          \A i \in DOMAIN last.list.users : last.list.users[i].Password = ""

\* a list returned two entities while the cache holds an entry, and every row
\* stores a password
C12_Witness ==
    /\ last.op = "list"
    /\ Len(last.list.users) = 2
    /\ \E k \in Ids : userCache[k].found
    /\ \A i \in DOMAIN users : users[i].password # ""

\* C13: a create whose username and email match no active row succeeds,
\* inserts exactly one row and changes no other, and returns an entity whose
\* credential is not the input credential.
C13_CreateSucceedsWithoutActiveMatch ==
    [][(Served("create") /\ ~CollidesWithActive(users, last'.in, 0))
       => /\ last'.status = StatusCreated
          /\ Len(users') = Len(users) + 1
          /\ SubSeq(users', 1, Len(users)) = users
          /\ last'.body.Password # last'.in.Password]_vars

\* C14: the entity a successful create returns has an empty credential, and
\* the row it inserted stores the hash of the input credential.
C14_CreateResponseCredentialCleared ==
    [][(Served("create") /\ last'.status = StatusCreated)
       => /\ last'.body.Password = ""
          /\ users'[Len(users')].password = Hash(last'.in.Password)]_vars

\* C15: the entity a successful update returns carries the replacement
\* username, email, profile picture URL and bio, and its password is not the
\* plaintext password of the request.
C15_UpdateResponseHidesPassword ==
    [][(Served("update") /\ last'.status = StatusOK)
       => /\ last'.body.Username = last'.in.Username
          /\ last'.body.Email = last'.in.Email
          /\ last'.body.ProfilePictureURL = last'.in.ProfilePictureURL
          /\ last'.body.Bio = last'.in.Bio
          /\ last'.body.Password # last'.in.Password]_vars

\* whether position p of the store-ordered sequence lies on page `page` of
\* pages of pageSize elements: (page-1)*pageSize < p <= page*pageSize, for
\* page >= 1, pageSize >= 1 and p < Byte, in unbounded arithmetic
OnPage(page, pageSize, p) ==
    /\ \/ Dec(page) = Word(0)
       \/ /\ IsSmall(Dec(page)) /\ IsSmall(pageSize)
          /\ Dec(page)[1] * pageSize[1] < p
    /\ ~(IsSmall(page) /\ IsSmall(pageSize) /\ page[1] * pageSize[1] < p)

\* C16: a list with page >= 1 and pageSize >= 1 returns exactly the elements
\* at positions (page-1)*pageSize + 1 .. page*pageSize of the sequence of
\* active rows in store order, fewer or none when the sequence is shorter,
\* and no soft-deleted row.
C16_ListReturnsPage ==
    [][Served("list") =>
         LET l   == last'.list
             pos == {p \in 1..Len(l.order) : OnPage(l.page, l.pageSize, p)}
         IN  /\ last'.status = StatusOK
             /\ Len(l.users) = Cardinality(pos)
             /\ \A p \in pos :
                   LET i == Cardinality({q \in pos : q <= p})
                   IN  /\ users[l.order[p]].deleted_at = NULL
                       /\ l.users[i] = ScanUser(users[l.order[p]])]_vars

\* how a query parameter reads: not a number at all, or a number below 1
DecimalDigits == {"0", "1", "2", "3", "4", "5", "6", "7", "8", "9"}

Unsigned(q) == IF q # <<>> /\ q[1] \in {"+", "-"} THEN Tail(q) ELSE q

Numeric(q) ==
    /\ Unsigned(q) # <<>>
    /\ \A i \in DOMAIN Unsigned(q) : Unsigned(q)[i] \in DecimalDigits

BelowOne(q) ==
    /\ Numeric(q)
    /\ (q[1] = "-" \/ \A i \in DOMAIN Unsigned(q) : Unsigned(q)[i] = "0")

Unusable(q) == q = <<>> \/ ~Numeric(q) \/ BelowOne(q)

C18_ListBypassesCache ==
    [][Served("list")
       => /\ userCache' = userCache
          /\ users' = users
          /\ \A i \in DOMAIN last'.list.users :
                LET e == last'.list.users[i]
                IN  /\ e.ID \in ActiveRows(users)
                    /\ e = ScanUser(users[e.ID])]_vars

\* a list returned an entity for which the cache serves a different value
C18_Witness ==
    /\ last.op = "list"
    /\ \E i \in DOMAIN last.list.users :
          LET e == last.list.users[i]
          IN  /\ Cached(userCache, e.ID, clock)
              /\ userCache[e.ID].Object # e

\* C19: a delete of an identifier that matches no row is answered 404 with a
\* non-empty error, not 500, and changes no row.
C19_DeleteMissingNotFound ==
    [][(Served("delete") /\ last'.target = "none")
       => /\ last'.status = StatusNotFound
          /\ last'.error # ""
          /\ users' = users]_vars

\* whether a row of rs, active or soft-deleted, carries u's username or email
CollidesWithAnyRow(rs, u) ==
    \E i \in DOMAIN rs : rs[i].username = u.Username \/ rs[i].email = u.Email

\* C20: an update of an identifier that matches no row, whose UPDATE statement
\* runs and affects zero rows (the duplicate pre-check before it found no row
\* with the username or email), is answered 404 "user_not_found", not 400 and
\* not 500, and changes no row.
C20_UpdateMissingNotFound ==
    [][(Served("update") /\ last'.target = "none"
          /\ ~CollidesWithAnyRow(users, last'.in))
       => /\ last'.calls = 2
          /\ last'.status = StatusNotFound
          /\ last'.error = "user_not_found"
          /\ users' = users]_vars

\* an update of an identifier that matches no row was answered 404 while the
\* table holds a row
C20_Witness ==
    /\ last.op = "update"
    /\ last.target = "none"
    /\ last.status = StatusNotFound
    /\ Len(users) >= 1

\* C21: a get of an identifier that has no active row and no entry the cache
\* serves is answered 404 with a non-empty error and leaves the cache and the
\* table as they are: the failed read creates no cache entry.
C21_GetMissingNotFound ==
    [][(Served("get") /\ last'.target # "active"
          /\ ~Cached(userCache, last'.id, clock))
       => /\ last'.status = StatusNotFound
          /\ last'.error # ""
          /\ userCache' = userCache
          /\ ~userCache'[last'.id].found
             \/ userCache'[last'.id].Expiration < clock'
          /\ users' = users]_vars

\* a get of a soft-deleted row was answered 404 with nothing cached for it,
\* while the cache holds an entry for another identifier
C21_Witness ==
    /\ last.op = "get"
    /\ last.target = "deleted"
    /\ last.status = StatusNotFound
    /\ ~userCache[last.id].found
    /\ \E k \in Ids : userCache[k].found

\* C22: no operation removes a row, and a successful delete of an active
\* record sets the deletion timestamp of that row to the current time and
\* changes nothing else: every other field of the row and every other row
\* stay as they were.
C22_DeleteSetsDeletionTimestampOnly ==
    [][/\ Len(users') >= Len(users)
       /\ \A i \in DOMAIN users : users'[i].id = users[i].id
       /\ (Served("delete") /\ last'.target = "active"
             /\ last'.status = StatusNoContent)
          => /\ Len(users') = Len(users)
             /\ users'[last'.id].deleted_at = clock
             /\ users'[last'.id].deleted_at # NULL
             /\ users'[last'.id] =
                   [users[last'.id] EXCEPT !.deleted_at = users'[last'.id].deleted_at]
             /\ \A i \in DOMAIN users : i # last'.id => users'[i] = users[i]]_vars

\* the second of two rows was deleted at a later time than it was created,
\* next to a row that is still active
C22_Witness ==
    /\ last.op = "delete"
    /\ last.target = "active"
    /\ last.status = StatusNoContent
    /\ last.id = 2
    /\ users[2].deleted_at > users[2].created_at
    /\ users[1].deleted_at = NULL

\* emails of the request bodies that are not of the local@domain form
MalformedEmails == {"", "invalid_email"}

\* C23: a create or update whose username is empty or whose email is not of
\* the local@domain form is answered 400 with a non-empty error, and inserts
\* and modifies no row.
C23_InvalidPayloadRejected ==
    [][((Served("create") \/ Served("update"))
          /\ (last'.in.Username = "" \/ last'.in.Email \in MalformedEmails))
       => /\ last'.status = StatusBadRequest
          /\ last'.error # ""
          /\ users' = users]_vars

\* C24: a successful update of row id, made after the time of the row's
\* last-modified timestamp, leaves the row with a later last-modified
\* timestamp, with the same identifier and creation timestamp, and returns
\* the row's new last-modified timestamp in the entity.
C24_UpdateRefreshesUpdatedAt ==
    [][(Served("update") /\ last'.status = StatusOK
          /\ clock > users[last'.id].updated_at)
       => /\ users'[last'.id].updated_at > users[last'.id].updated_at
          /\ users'[last'.id].id = users[last'.id].id
          /\ users'[last'.id].created_at = users[last'.id].created_at
          /\ last'.body.UpdatedAt = users'[last'.id].updated_at]_vars

\* C25: what the cache serves is at most 5 minutes old.  An entry for id
\* appears or changes only when a get of id reads the active row id from the
\* store, and it then holds that row as read and the time of the read (its
\* expiration less the time-to-live); a get answered from the cache returns
\* an entry read at most 5 minutes earlier; and a get of id that finds an
\* entry read more than 5 minutes earlier reads the store again.
C25_CacheStalenessBounded ==
    [][/\ \A k \in Ids :
             userCache'[k] # userCache[k]
             => /\ Served("get") /\ last'.id = k /\ last'.calls = 1
                /\ RowState(users, k) = "active"
                /\ userCache'[k].found
                /\ userCache'[k].Object = ScanUser(users[k])
                /\ userCache'[k].Expiration = clock + DefaultExpiration
       /\ (Served("get") /\ last'.calls = 0)
          => /\ userCache[last'.id].found
             /\ last'.body = userCache[last'.id].Object
             /\ clock <= (userCache[last'.id].Expiration - DefaultExpiration) + 5
       /\ (Served("get") /\ userCache[last'.id].found
             /\ clock > (userCache[last'.id].Expiration - DefaultExpiration) + 5)
          => /\ last'.calls = 1
             /\ last'.status = StatusOK
                => last'.body = ScanUser(users[last'.id])]_vars

\* a get was answered from the cache with an entry read exactly 5 minutes
\* earlier, while the row in the table has another email by now
C25_Witness ==
    /\ last.op = "get"
    /\ last.calls = 0
    /\ userCache[last.id].found
    /\ clock = (userCache[last.id].Expiration - DefaultExpiration) + 5
    /\ last.body.Email # users[last.id].email

\* C26: a get, update or delete during which the store failed is answered
\* 500, never 404; the failed statement is the last one the operation sent
\* (it is not sent again); and the cache and the table are left as they were.
C26_StoreFailureIsInternal ==
    [][((Served("get") \/ Served("update") \/ Served("delete"))
          /\ last'.fault # 0)
       => /\ last'.status = StatusInternalServerError
          /\ last'.status # StatusNotFound
          /\ last'.calls = last'.fault
          /\ userCache' = userCache
          /\ users' = users]_vars

\* C27: an update of row id that carries the username and the email the row
\* already has, which no other active record has, is answered 200, not
\* "username_or_email_exists": the pre-check leaves the target itself out.
C27_UpdateToOwnIdentitySucceeds ==
    [][(Served("update") /\ last'.target # "none"
          /\ last'.in.Username = users[last'.id].username
          /\ last'.in.Email = users[last'.id].email
          /\ ~CollidesWithActive(users, last'.in, last'.id))
       => /\ last'.status = StatusOK
          /\ last'.error # "username_or_email_exists"
          /\ users'[last'.id].username = last'.in.Username
          /\ users'[last'.id].email = last'.in.Email]_vars

\* row 2, next to an active row 1, was updated to the username and email it
\* had, and the update was answered 200
C27_Witness ==
    /\ last.op = "update"
    /\ last.status = StatusOK
    /\ last.id = 2
    /\ last.target = "active"
    /\ users[1].deleted_at = NULL
    /\ last.in.Username = "bob" /\ last.in.Email = "bob@x"
    /\ last.body.UpdatedAt = users[2].updated_at
    /\ users[2].created_at = users[2].updated_at

\* C28: an update of an identifier that matches no row, with the username or
\* the email of an existing row, is answered 400 "username_or_email_exists",
\* not 404, after the pre-check alone, and changes nothing.
C28_PrecheckBeforeExistence ==
    [][(Served("update") /\ last'.target = "none"
          /\ CollidesWithAnyRow(users, last'.in))
       => /\ last'.status = StatusBadRequest
          /\ last'.error = "username_or_email_exists"
          /\ last'.calls = 1
          /\ users' = users
          /\ userCache' = userCache]_vars

\* an update of an identifier that matches no row was answered 400 while the
\* only row with its username is soft-deleted
C28_Witness ==
    /\ last.op = "update"
    /\ last.target = "none"
    /\ last.status = StatusBadRequest
    /\ \E i \in DOMAIN users : users[i].username = last.in.Username
    /\ \A i \in DOMAIN users :
          users[i].username = last.in.Username => users[i].deleted_at # NULL

\* C29: the entity a successful update of id returns has the identifier id
\* and the creation timestamp stored in row id, whatever the request body
\* carried in those fields.
C29_UpdateResponseDescribesRow ==
    [][(Served("update") /\ last'.status = StatusOK)
       => /\ last'.body.ID = last'.id
          /\ last'.body.ID = users'[last'.id].id
          /\ last'.body.CreatedAt = users'[last'.id].created_at]_vars

\* C30: with requests served one at a time, no two rows of the table, active
\* or soft-deleted, have the same username, and no two have the same email.
C30_AllRowsIdentityUnique ==
    \A i, j \in DOMAIN users :
        i # j => /\ users[i].username # users[j].username
                 /\ users[i].email # users[j].email

\* the table holds a soft-deleted row and an active one, and a create with
\* the username of the soft-deleted row has just been answered 400
C30_Witness ==
    /\ Len(users) = 2
    /\ \E i, j \in DOMAIN users :
          users[i].deleted_at # NULL /\ users[j].deleted_at = NULL
    /\ last.op = "create"
    /\ last.status = StatusBadRequest
    /\ ~CollidesWithActive(users, last.in, 0)
    /\ CollidesWithDeleted(users, last.in)

====
